---------------------------- MODULE Spec2Model ----------------------------
(***************************************************************************)
(* zipimage-resizer: the archive transcoding pipeline of src/src/app.rs    *)
(* and the packer of src/src/zip_util.rs.                                  *)
(*                                                                         *)
(* A string is a sequence of tokens (<<"a", ".", "png">> is a.png), a path *)
(* is a sequence of components, each a string.                             *)
(***************************************************************************)
EXTENDS Naturals, Sequences, FiniteSets, TLC

(***************************************************************************)
(* std::path::Path, as the program uses it.                                *)
(***************************************************************************)
Dot == "."

\* The index of the last dot of a file name, 0 when it has none.
LastDot(name) ==
    LET dots == {i \in 1..Len(name) : name[i] = Dot}
    IN  IF dots = {} THEN 0 ELSE CHOOSE i \in dots : \A j \in dots : j <= i

\* Path::file_stem: the name up to its last dot; the whole name when it has no
\* dot, when its only dot leads it, or when it is "..".
FileStem(name) ==
    IF name = <<Dot, Dot>> \/ LastDot(name) <= 1
    THEN name
    ELSE SubSeq(name, 1, LastDot(name) - 1)

\* Path::extension().unwrap_or(""): what follows the last dot, "" when
\* file_stem took the whole name.
Extension(name) ==
    IF name = <<Dot, Dot>> \/ LastDot(name) <= 1
    THEN <<>>
    ELSE SubSeq(name, LastDot(name) + 1, Len(name))

\* Path::with_extension on a file name: the stem, then a dot and the extension
\* unless the extension is empty.
WithExtension(name, ext) ==
    IF name = <<Dot, Dot>> THEN name
    ELSE IF ext = <<>> THEN FileStem(name)
    ELSE FileStem(name) \o <<Dot>> \o ext

FileName(path) == path[Len(path)]

Parent(path) == SubSeq(path, 1, Len(path) - 1)

\* Path::with_file_name: the last component replaced.
WithFileName(path, name) == Parent(path) \o <<name>>

\* Path::join with a relative file name.
Join(dir, name) == dir \o <<name>>

PathWithExtension(path, ext) ==
    WithFileName(path, WithExtension(FileName(path), ext))

\* append_suffix_to_filename: the suffix is pushed onto the stem as it is.
AppendSuffixToFilename(path, suffix) ==
    LET stem == FileStem(FileName(path)) \o suffix
        ext  == Extension(FileName(path))
    IN  PathWithExtension(WithFileName(path, stem), ext)

None == <<"None">>

ResizedSuffix == <<"_resized">>

DetermineOutputPath(path, output_dir) ==
    IF output_dir # None
    THEN Join(output_dir, FileName(path))
    ELSE AppendSuffixToFilename(path, ResizedSuffix)


(***************************************************************************)
(* The file system: a tree maps each path to its node, a file with its     *)
(* content or a directory.  A file's content is described by what the      *)
(* program asks of it: the format image::guess_format finds in its first   *)
(* bytes ("none": no format it knows), whether the bytes are a well-formed *)
(* image of that format, whether they are 1 MiB or more, the task that     *)
(* wrote them (<<>>: they came out of the archive) and whether they are    *)
(* all written.                                                            *)
(***************************************************************************)
FileNode(fmt, big, valid, by, full) ==
    [type |-> "file", fmt |-> fmt, big |-> big, valid |-> valid,
     by |-> by, full |-> full]

DirNode == [type |-> "dir"]

Original == <<>>

Text      == FileNode("none", FALSE, FALSE, Original, TRUE)
Png       == FileNode("png", FALSE, TRUE, Original, TRUE)
Jpeg      == FileNode("jpeg", FALSE, TRUE, Original, TRUE)
Corrupt   == FileNode("png", FALSE, FALSE, Original, TRUE)
WebpSmall == FileNode("webp", FALSE, TRUE, Original, TRUE)
WebpBig   == FileNode("webp", TRUE, TRUE, Original, TRUE)

Kinds == {Text, Png, Jpeg, Corrupt, WebpSmall, WebpBig}

\* ImageFormat::from_path, which image::open decodes by: the format the
\* extension names.
ImageFormatFromPath(path) ==
    LET ext == Extension(FileName(path))
    IN  IF ext = <<"png">> THEN "png"
        ELSE IF ext \in {<<"jpg">>, <<"jpeg">>} THEN "jpeg"
        ELSE IF ext = <<"webp">> THEN "webp"
        ELSE "none"

\* image::open succeeds: the extension names a format and the bytes are a
\* well-formed image of it.
Decodes(path, node) == node.valid /\ node.fmt = ImageFormatFromPath(path)

\* File::create: an empty file, nothing of it written yet.
Created(by) == FileNode("none", FALSE, FALSE, by, FALSE)

\* The replacement once write_all and flush are through.
Written(by, big) == FileNode("webp", big, TRUE, by, TRUE)

\* Two tasks wrote through handles of the same file: the bytes of both.
Mixed == <<"mixed">>

Garbled == FileNode("webp", FALSE, FALSE, Mixed, TRUE)

IsFile(tree, p) == p \in DOMAIN tree /\ tree[p].type = "file"

IsDir(tree, p) == p \in DOMAIN tree /\ tree[p].type = "dir"

Put(tree, p, node) == [q \in DOMAIN tree \cup {p} |-> IF q = p THEN node ELSE tree[q]]

Unlink(tree, p) == [q \in DOMAIN tree \ {p} |-> tree[q]]

EmptyTree == [q \in {} |-> DirNode]

(***************************************************************************)
(* zip_util: the packer.                                                   *)
(***************************************************************************)
Slash == "/"

\* The tokens of the model in byte order, for sort_by_file_name.
TokenOrder == <<Dot, "_", "_resized", "a", "b", "c", "jpg", "png", "s", "suffix",
                "t", "txt", "webp", "x", "zip">>

TokenRank(t) ==
    IF \E i \in 1..Len(TokenOrder) : TokenOrder[i] = t
    THEN CHOOSE i \in 1..Len(TokenOrder) : TokenOrder[i] = t
    ELSE Len(TokenOrder) + 1

\* Lexicographic order of two file names.
RECURSIVE NameLess(_, _)
NameLess(m, n) ==
    IF n = <<>> THEN FALSE
    ELSE IF m = <<>> THEN TRUE
    ELSE IF TokenRank(Head(m)) # TokenRank(Head(n))
         THEN TokenRank(Head(m)) < TokenRank(Head(n))
    ELSE NameLess(Tail(m), Tail(n))

\* The paths of a set in the order of their file names.
RECURSIVE SortByFileName(_)
SortByFileName(paths) ==
    IF paths = {} THEN <<>>
    ELSE LET first == CHOOSE p \in paths :
                        \A q \in paths \ {p} : NameLess(FileName(p), FileName(q))
         IN  <<first>> \o SortByFileName(paths \ {first})

Children(tree, dir) == {p \in DOMAIN tree : Len(p) = Len(dir) + 1 /\ Parent(p) = dir}

\* WalkDir::new(dir).max_depth(1).sort_by_file_name(): the directory itself,
\* then its entries by name.
WalkDirSorted(tree, dir) == <<dir>> \o SortByFileName(Children(tree, dir))

\* A name that is not UTF-8 is not a token the archive's reader can have
\* written: to_string_lossy replaces it.
InvalidUtf8 == {"\\xff"}

ToStringLossy(t) == IF t \in InvalidUtf8 THEN "\\ufffd" ELSE t

RECURSIVE JoinComponents(_)
JoinComponents(comps) ==
    IF comps = <<>> THEN <<>>
    ELSE IF Len(comps) = 1 THEN [i \in 1..Len(comps[1]) |-> ToStringLossy(comps[1][i])]
    ELSE [i \in 1..Len(comps[1]) |-> ToStringLossy(comps[1][i])]
         \o <<Slash>> \o JoinComponents(Tail(comps))

\* relative_path: the path with base_dir stripped, as a string.
RelativePath(path, base_dir) ==
    JoinComponents(SubSeq(path, Len(base_dir) + 1, Len(path)))

StoredExtensions == {<<"jpg">>, <<"jpeg">>, <<"png">>, <<"webp">>}

\* get_options: images are stored, everything else deflated.
GetOptions(path) ==
    IF Extension(FileName(path)) \in StoredExtensions THEN "Stored" ELSE "Deflated"

FileEntry(tree, path, base_dir) ==
    [name |-> RelativePath(path, base_dir), dir |-> FALSE,
     method |-> GetOptions(path), data |-> tree[path]]

\* ZipWriter::add_directory: the name ends in a slash.
DirEntry(path, base_dir) ==
    [name |-> RelativePath(path, base_dir) \o <<Slash>>, dir |-> TRUE,
     method |-> "Stored", data |-> DirNode]

RECURSIVE MapFiles(_, _, _)
MapFiles(tree, paths, base_dir) ==
    IF paths = <<>> THEN <<>>
    ELSE <<FileEntry(tree, Head(paths), base_dir)>> \o MapFiles(tree, Tail(paths), base_dir)

\* zip_process_dir without its add_directory.
RECURSIVE ZipProcessDirNoDirectories(_, _, _)
ZipProcessDirNoDirectories(tree, dir, base_dir) ==
    LET entries == WalkDirSorted(tree, dir)
        files   == SelectSeq(entries, LAMBDA p : IsFile(tree, p))
        dirs    == SelectSeq(entries, LAMBDA p : IsDir(tree, p) /\ p # dir)
        Each[i \in 0..Len(dirs)] ==
            IF i = 0 THEN <<>>
            ELSE Each[i - 1] \o ZipProcessDirNoDirectories(tree, dirs[i], base_dir)
    IN  MapFiles(tree, files, base_dir) \o Each[Len(dirs)]

\* zip_process_dir: the files of dir, then each subdirectory: its own entry and
\* its contents.
RECURSIVE ZipProcessDir(_, _, _)
ZipProcessDir(tree, dir, base_dir) ==
    LET entries == WalkDirSorted(tree, dir)
        files   == SelectSeq(entries, LAMBDA p : IsFile(tree, p))
        dirs    == SelectSeq(entries, LAMBDA p : IsDir(tree, p) /\ p # dir)
        Each[i \in 0..Len(dirs)] ==
            IF i = 0 THEN <<>>
            ELSE Each[i - 1] \o <<DirEntry(dirs[i], base_dir)>>
                 \o ZipProcessDir(tree, dirs[i], base_dir)
    IN  MapFiles(tree, files, base_dir) \o Each[Len(dirs)]

\* zip: the container of src_dir.
Zip(tree, src_dir) == ZipProcessDir(tree, src_dir, src_dir)

\* An entry's name cut at its slashes.
RECURSIVE SplitName(_)
SplitName(name) ==
    IF name = <<>> THEN <<>>
    ELSE LET slashes == {i \in 1..Len(name) : name[i] = Slash}
             cut     == IF slashes = {} THEN Len(name) + 1
                        ELSE CHOOSE i \in slashes : \A j \in slashes : i <= j
         IN  (IF cut = 1 THEN <<>> ELSE <<SubSeq(name, 1, cut - 1)>>)
             \o SplitName(SubSeq(name, cut + 1, Len(name)))

\* create_dir_all: the directory and those above it, below output_dir.
CreateDirAll(tree, path, output_dir) ==
    LET made == {SubSeq(path, 1, n) : n \in (Len(output_dir) + 1)..Len(path)}
    IN  [q \in DOMAIN tree \cup made |-> IF q \in DOMAIN tree THEN tree[q] ELSE DirNode]

\* ZipArchive::extract, entry by entry: a name ending in a slash makes a
\* directory, any other name a file below its (created) parents.
RECURSIVE Extract(_, _, _)
Extract(container, output_dir, tree) ==
    IF container = <<>> THEN tree
    ELSE LET e    == Head(container)
             path == output_dir \o SplitName(e.name)
             next == IF e.name[Len(e.name)] = Slash
                     THEN CreateDirAll(tree, path, output_dir)
                     ELSE Put(CreateDirAll(tree, Parent(path), output_dir), path, e.data)
         IN  Extract(Tail(container), output_dir, next)

\* unzip into an empty output_dir.
Unzip(container, output_dir) == Extract(container, output_dir, EmptyTree)


(***************************************************************************)
(* The state.                                                              *)
(***************************************************************************)
VARIABLES
    args,           \* Args: zipfile, output_dir, keep_mtime, min_height is not modelled
    fs,             \* the archives on disk: path -> [data, written, mtime]
    src0,           \* the source archive's file as run found it
    dst,            \* dst_zipfile
    ppc,            \* where resize_image_zipfile is
    ret,            \* what resize_image_zipfile returned: "none", "Ok", "Err"
    work,           \* the tree below work_dir
    tasks,          \* the parallel map: file -> [pc, result, touched]
    resized_count,
    dst_tempfile,   \* the container staged in the temporary file, <<>> before
    dst_created,    \* File::create(dst_zipfile) was called
    qpc, image, encodings, webp,        \* the quality search on one image
    ztree, zcontainer, zextracted, zpc, \* the packer on one tree
    spath, ssuffix, sresult, spc        \* append_suffix_to_filename on one path

pipeline_vars == <<args, fs, src0, dst, ppc, ret, work, tasks, resized_count,
                   dst_tempfile, dst_created>>

quality_vars == <<qpc, image, encodings, webp>>

zip_vars == <<ztree, zcontainer, zextracted, zpc>>

suffix_vars == <<spath, ssuffix, sresult, spc>>

vars == <<pipeline_vars, quality_vars, zip_vars, suffix_vars>>

(***************************************************************************)
(* Bounds and the inputs drawn within them.                                *)
(***************************************************************************)
\* The files of one archive.
MaxFiles == 2

\* The chunks io::copy moves an archive in.
ChunkCount == 2

SrcDir == <<"in">>

OutDir == <<"out">>

WorkDir == <<"tmp", "work">>

ZipNames == {<<"x", Dot, "zip">>}

WebpExt == <<"webp">>

WorkNames == {<<"a", Dot, "png">>, <<"a", Dot, "jpg">>, <<"a", Dot, "webp">>,
              <<"b", Dot, "txt">>}

\* The flat trees of up to MaxFiles files, each of any kind.
FlatTrees ==
    UNION {[{Join(WorkDir, n) : n \in names} -> Kinds] :
             names \in {ns \in SUBSET WorkNames : Cardinality(ns) \in 1..MaxFiles}}

ArchiveFile(container) == [data |-> container, written |-> ChunkCount, mtime |-> "T"]

Complete(file) == file.written = ChunkCount

(***************************************************************************)
(* Results of resize_image_file_webp.                                      *)
(***************************************************************************)
\* Ok(bool), or the error with the call that raised it.
Ok(b) == [tag |-> "Ok", val |-> b, from |-> "return"]

Err(from) == [tag |-> "Err", val |-> FALSE, from |-> from]

Pending == [tag |-> "none", val |-> FALSE, from |-> "none"]

NewTask == [pc |-> "guess", result |-> Pending, touched |-> {}]

Finish(t, result) == [t EXCEPT !.pc = "done", !.result = result]

Touch(t, paths) == [t EXCEPT !.touched = @ \cup paths]

Target(p) == PathWithExtension(p, WebpExt)

PipelineInit ==
    /\ args \in [zipfile : {Join(SrcDir, n) : n \in ZipNames},
                 output_dir : {None, SrcDir, OutDir},
                 keep_mtime : BOOLEAN]
    /\ \E t \in FlatTrees :
         fs = [p \in {args.zipfile} |-> ArchiveFile(Zip(t, WorkDir))]
    /\ src0 = fs[args.zipfile]
    /\ dst = None
    /\ ppc = "run"
    /\ ret = "none"
    /\ work = EmptyTree
    /\ tasks = [p \in {} |-> NewTask]
    /\ resized_count = 0
    /\ dst_tempfile = <<>>
    /\ dst_created = FALSE

PipelineIdle ==
    /\ args = [zipfile |-> Join(SrcDir, <<"x", Dot, "zip">>), output_dir |-> None,
               keep_mtime |-> FALSE]
    /\ fs = [p \in {} |-> ArchiveFile(<<>>)]
    /\ src0 = ArchiveFile(<<>>)
    /\ dst = None
    /\ ppc = "idle"
    /\ ret = "none"
    /\ work = EmptyTree
    /\ tasks = [p \in {} |-> NewTask]
    /\ resized_count = 0
    /\ dst_tempfile = <<>>
    /\ dst_created = FALSE

\* resize_image_zipfile returns: work_dir is dropped with it.
Return(r) ==
    /\ ppc' = "returned"
    /\ ret' = r
    /\ work' = EmptyTree

(***************************************************************************)
(* run's loop body up to the parallel map: the output path, the temporary  *)
(* directory, unzip and the list of files.                                 *)
(***************************************************************************)
StartArchive ==
    /\ ppc = "run"
    /\ dst' = DetermineOutputPath(args.zipfile, args.output_dir)
    /\ \E ok \in BOOLEAN :
         IF ok /\ args.zipfile \in DOMAIN fs /\ Complete(fs[args.zipfile])
         THEN /\ work' = Unzip(fs[args.zipfile].data, WorkDir)
              /\ tasks' = [p \in {q \in DOMAIN work' : IsFile(work', q)} |-> NewTask]
              /\ ppc' = "transcode"
              /\ ret' = ret
         ELSE /\ Return("Err")
              /\ tasks' = tasks
    /\ UNCHANGED <<args, fs, src0, resized_count, dst_tempfile, dst_created>>

(***************************************************************************)
(* resize_image_file_webp, one step of one task.                           *)
(***************************************************************************)
TaskStep(p, t, w) ==
    /\ tasks' = [tasks EXCEPT ![p] = t]
    /\ work' = w
    /\ UNCHANGED <<args, fs, src0, dst, ppc, ret, resized_count, dst_tempfile,
                   dst_created>>

\* fs::read, guess_format and, for a WebP, metadata().len().
Guess(p) ==
    /\ ppc = "transcode" /\ p \in DOMAIN tasks /\ tasks[p].pc = "guess"
    /\ LET t == Touch(tasks[p], {p})
       IN  IF ~IsFile(work, p)
           THEN TaskStep(p, Finish(t, Err("read")), work)
           ELSE IF work[p].fmt = "none"
           THEN TaskStep(p, Finish(t, Err("guess_format")), work)
           ELSE IF work[p].fmt = "webp" /\ ~work[p].big
           THEN TaskStep(p, Finish(t, Ok(FALSE)), work)
           ELSE TaskStep(p, [t EXCEPT !.pc = "open"], work)

\* image::open.
Open(p) ==
    /\ ppc = "transcode" /\ p \in DOMAIN tasks /\ tasks[p].pc = "open"
    /\ IF IsFile(work, p) /\ Decodes(p, work[p])
       THEN TaskStep(p, [tasks[p] EXCEPT !.pc = "remove"], work)
       ELSE TaskStep(p, Finish(tasks[p], Ok(FALSE)), work)

\* fs::remove_file.
Remove(p) ==
    /\ ppc = "transcode" /\ p \in DOMAIN tasks /\ tasks[p].pc = "remove"
    /\ IF IsFile(work, p)
       THEN TaskStep(p, [tasks[p] EXCEPT !.pc = "encoder"], Unlink(work, p))
       ELSE TaskStep(p, Finish(tasks[p], Err("remove_file")), work)

\* webp::Encoder::from_image, and the quality search on the encoder it gives.
Encoder(p) ==
    /\ ppc = "transcode" /\ p \in DOMAIN tasks /\ tasks[p].pc = "encoder"
    /\ \E ok \in BOOLEAN :
         IF ok
         THEN TaskStep(p, [tasks[p] EXCEPT !.pc = "create"], work)
         ELSE TaskStep(p, Finish(tasks[p], Err("from_image")), work)

\* File::create(path.with_extension("webp")): the file is there, and empty.
Create(p) ==
    /\ ppc = "transcode" /\ p \in DOMAIN tasks /\ tasks[p].pc = "create"
    /\ \E ok \in BOOLEAN :
         IF ok
         THEN TaskStep(p, [Touch(tasks[p], {Target(p)}) EXCEPT !.pc = "write"],
                       Put(work, Target(p), Created(p)))
         ELSE TaskStep(p, Finish(tasks[p], Err("create")), work)

\* write_all and flush, through the handle File::create gave.  The file may have
\* been unlinked since, or created again by another task (the same file, both
\* handles writing from its start).
Write(p) ==
    /\ ppc = "transcode" /\ p \in DOMAIN tasks /\ tasks[p].pc = "write"
    /\ \E ok \in BOOLEAN, big \in BOOLEAN :
         IF ~ok
         THEN TaskStep(p, Finish(tasks[p], Err("write_all")), work)
         ELSE IF ~IsFile(work, Target(p))
         THEN TaskStep(p, Finish(tasks[p], Ok(TRUE)), work)
         ELSE IF work[Target(p)] = Created(p)
         THEN TaskStep(p, Finish(tasks[p], Ok(TRUE)), Put(work, Target(p), Written(p, big)))
         ELSE \E node \in {Written(p, big), Garbled} :
                TaskStep(p, Finish(tasks[p], Ok(TRUE)), Put(work, Target(p), node))

(***************************************************************************)
(* The aggregation: filter, collect::<Result<Vec<_>>>()?, len.             *)
(***************************************************************************)
\* A filter that keeps every Ok, whatever its value.
FilterKeepsAllOk(r) == r.tag = "Ok"

\* |r| *r.as_ref().ok().unwrap_or(&false): Ok(true) alone is kept.
FilterPredicate(r) == IF r.tag = "Ok" THEN r.val ELSE FALSE

Kept == {p \in DOMAIN tasks : FilterPredicate(tasks[p].result)}

\* collect into a Result: the first Err, or the vector.
Collected == IF \E p \in Kept : tasks[p].result.tag = "Err" THEN "Err" ELSE "Ok"

AllDone == \A p \in DOMAIN tasks : tasks[p].pc = "done"

Aggregate ==
    /\ ppc = "transcode" /\ AllDone
    /\ IF Collected = "Err"
       THEN Return("Err") /\ resized_count' = resized_count
       ELSE /\ resized_count' = Cardinality(Kept)
            /\ IF resized_count' = 0
               THEN Return("Ok")
               ELSE ppc' = "pack" /\ UNCHANGED <<ret, work>>
    /\ UNCHANGED <<args, fs, src0, dst, tasks, dst_tempfile, dst_created>>

(***************************************************************************)
(* Packing and publishing.                                                 *)
(***************************************************************************)
\* tempfile() and zip_util::zip into it.
Pack ==
    /\ ppc = "pack"
    /\ \E ok \in BOOLEAN :
         IF ok
         THEN /\ dst_tempfile' = Zip(work, WorkDir)
              /\ ppc' = "create_dst"
              /\ UNCHANGED <<ret, work>>
         ELSE Return("Err") /\ dst_tempfile' = dst_tempfile
    /\ UNCHANGED <<args, fs, src0, dst, tasks, resized_count, dst_created>>

\* seek and File::create(dst_zipfile): the destination is there, and empty.
CreateDst ==
    /\ ppc = "create_dst"
    /\ \E ok \in BOOLEAN :
         IF ok
         THEN /\ fs' = Put(fs, dst, [data |-> dst_tempfile, written |-> 0, mtime |-> "now"])
              /\ dst_created' = TRUE
              /\ ppc' = "copy"
              /\ UNCHANGED <<ret, work>>
         ELSE Return("Err") /\ UNCHANGED <<fs, dst_created>>
    /\ UNCHANGED <<args, src0, dst, tasks, resized_count, dst_tempfile>>

\* io::copy, a chunk at a time.
CopyChunk ==
    /\ ppc = "copy"
    /\ \E ok \in BOOLEAN :
         IF ok
         THEN /\ fs' = [fs EXCEPT ![dst].written = @ + 1]
              /\ IF fs'[dst].written = ChunkCount
                 THEN ppc' = "mtime"
                 ELSE ppc' = "copy"
              /\ UNCHANGED <<ret, work>>
         ELSE Return("Err") /\ fs' = fs
    /\ UNCHANGED <<args, src0, dst, tasks, resized_count, dst_tempfile, dst_created>>

\* keep_mtime: the source's modification time, read now, set on the destination.
KeepMtime ==
    /\ ppc = "mtime"
    /\ IF args.keep_mtime
       THEN \E ok \in BOOLEAN :
              IF ok
              THEN fs' = [fs EXCEPT ![dst].mtime = fs[args.zipfile].mtime] /\ Return("Ok")
              ELSE fs' = fs /\ Return("Err")
       ELSE fs' = fs /\ Return("Ok")
    /\ UNCHANGED <<args, src0, dst, tasks, resized_count, dst_tempfile, dst_created>>

QualityIdle == qpc = "idle" /\ image = <<>> /\ encodings = <<>> /\ webp = <<>>

ZipIdle == zpc = "idle" /\ ztree = EmptyTree /\ zcontainer = <<>> /\ zextracted = EmptyTree

SuffixIdle == spc = "idle" /\ spath = <<>> /\ ssuffix = <<>> /\ sresult = <<>>

Init == PipelineInit /\ QualityIdle /\ ZipIdle /\ SuffixIdle

Next ==
    \/ StartArchive /\ UNCHANGED <<quality_vars, zip_vars, suffix_vars>>
    \/ \E p \in DOMAIN tasks : Guess(p) /\ UNCHANGED <<quality_vars, zip_vars, suffix_vars>>
    \/ \E p \in DOMAIN tasks : Open(p) /\ UNCHANGED <<quality_vars, zip_vars, suffix_vars>>
    \/ \E p \in DOMAIN tasks : Remove(p) /\ UNCHANGED <<quality_vars, zip_vars, suffix_vars>>
    \/ \E p \in DOMAIN tasks : Encoder(p) /\ UNCHANGED <<quality_vars, zip_vars, suffix_vars>>
    \/ \E p \in DOMAIN tasks : Create(p) /\ UNCHANGED <<quality_vars, zip_vars, suffix_vars>>
    \/ \E p \in DOMAIN tasks : Write(p) /\ UNCHANGED <<quality_vars, zip_vars, suffix_vars>>
    \/ Aggregate /\ UNCHANGED <<quality_vars, zip_vars, suffix_vars>>
    \/ Pack /\ UNCHANGED <<quality_vars, zip_vars, suffix_vars>>
    \/ CreateDst /\ UNCHANGED <<quality_vars, zip_vars, suffix_vars>>
    \/ CopyChunk /\ UNCHANGED <<quality_vars, zip_vars, suffix_vars>>
    \/ KeepMtime /\ UNCHANGED <<quality_vars, zip_vars, suffix_vars>>

Spec == Init /\ [][Next]_vars


(***************************************************************************)
(* Claims about the pipeline, checked under Spec.                          *)
(***************************************************************************)
\* The tree as unzip left it.
OriginalTree == Unzip(src0.data, WorkDir)

Replaced == {p \in DOMAIN tasks : tasks[p].result = Ok(TRUE)}

\* The errors that are not the format guess of an undecodable file.
HardErrors == {"read", "remove_file", "from_image", "create", "write_all"}

\* C1: when the transcode of any file ended in a hard error, resize_image_zipfile
\* returns an error, and no archive was packed or committed.
C1_HardErrorFailsTheArchive ==
    (ppc = "returned" /\ \E p \in DOMAIN tasks :
        tasks[p].result.tag = "Err" /\ tasks[p].result.from \in HardErrors)
    => (ret = "Err" /\ dst_tempfile = <<>> /\ ~dst_created)

\* C2: with no file Replaced the pipeline goes from the transcode straight to its
\* return, nothing packed and the destination never created; the destination
\* is created only after every task is done and some file was Replaced.
C2_NoDestinationWithoutReplaced ==
    /\ Replaced = {} =>
         /\ ppc \in {"run", "transcode", "returned"}
         /\ dst_tempfile = <<>>
         /\ ~dst_created
         /\ (dst # None /\ dst # args.zipfile => dst \notin DOMAIN fs)
    /\ dst_created => AllDone /\ Replaced # {}

C2_Witness ==
    /\ ppc = "returned" /\ ret = "Ok"
    /\ \E p \in DOMAIN tasks : tasks[p].result = Ok(FALSE)
    /\ \E p \in DOMAIN tasks : tasks[p].result.tag = "Err"
    /\ Replaced = {}
    /\ dst \notin DOMAIN fs

\* C3: whoever reads the destination path finds no file or the whole container.
C3_DestinationNeverPartial ==
    (dst # None /\ dst \in DOMAIN fs) => Complete(fs[dst])

\* C5: a file that does not decode (text, a corrupt image) ends Unchanged,
\* never in an error.
C5_UndecodableIsUnchanged ==
    \A p \in DOMAIN tasks :
        (tasks[p].pc = "done" /\ ~OriginalTree[p].valid) => tasks[p].result = Ok(FALSE)

\* C6: no two tasks touch the same path.
C6_TasksTouchDisjointPaths ==
    \A p, q \in DOMAIN tasks : p # q => tasks[p].touched \cap tasks[q].touched = {}

\* C7: the source archive's bytes stay what they were.
C7_SourceNeverMutated ==
    args.zipfile \in DOMAIN fs /\ fs[args.zipfile] = src0

\* What C10 asks of the tree for file p: the original where it was, or a whole
\* replacement of the same base name.
KeptOrReplaced(tree, p) ==
    \/ IsFile(tree, p) /\ tree[p] = OriginalTree[p]
    \/ IsFile(tree, Target(p)) /\ tree[Target(p)].full /\ tree[Target(p)].by # Original

\* C10: when a task finishes, whatever it returns, its file is in the tree as
\* the original or as a whole replacement.
C10_NoEntryLost ==
    [][\A p \in DOMAIN tasks :
          (tasks[p].pc # "done" /\ p \in DOMAIN tasks' /\ tasks'[p].pc = "done")
          => KeptOrReplaced(work', p)]_vars


(***************************************************************************)
(* The quality search of resize_image_file_webp on one image.  The image   *)
(* is what the encoder makes of it: the encoded size at each quality.      *)
(***************************************************************************)
SizeBudget == 1048576

QualityLow == 15

QualityHigh == 95

QualityStep == 10

QualityFloor == 10

\* (lo..=hi).rev()
Rev(lo, hi) == [i \in 1..(hi - lo + 1) |-> hi - (i - 1)]

\* .step_by(n): the first element, then every n-th.
StepBy(seq, n) == [i \in 1..((Len(seq) + n - 1) \div n) |-> seq[(i - 1) * n + 1]]

\* (15..=95).rev().step_by(10)
Qualities == StepBy(Rev(QualityLow, QualityHigh), QualityStep)

\* The test with <= for <.
UnderOrAtBudget(len) == len <= SizeBudget

\* |webp| webp.len() < 1024 * 1024
UnderBudget(len) == len < SizeBudget

Sizes == {SizeBudget - 1, SizeBudget, SizeBudget + 1}

Range(seq) == {seq[i] : i \in 1..Len(seq)}

Encode(q) == [quality |-> q, len |-> image[q]]

QualityInit ==
    /\ qpc = "search"
    /\ image \in [Range(Qualities) \cup {QualityFloor} -> Sizes]
    /\ encodings = <<>>
    /\ webp = <<>>

\* One pull of find on the lazy map: the next quality is encoded and tested.
EncodeNext ==
    /\ qpc = "search"
    /\ Len(encodings) < Len(Qualities)
    /\ LET e == Encode(Qualities[Len(encodings) + 1])
       IN  /\ encodings' = Append(encodings, e)
           /\ IF UnderBudget(e.len)
              THEN webp' = e /\ qpc' = "found"
              ELSE webp' = webp /\ qpc' = "search"
    /\ UNCHANGED image

\* find is through the qualities with nothing found: unwrap_or_else encodes at 10.
Fallback ==
    /\ qpc = "search"
    /\ Len(encodings) = Len(Qualities)
    /\ encodings' = Append(encodings, Encode(QualityFloor))
    /\ webp' = Encode(QualityFloor)
    /\ qpc' = "found"
    /\ UNCHANGED image

\* write_all(&webp)
WriteWebp ==
    /\ qpc = "found"
    /\ qpc' = "written"
    /\ UNCHANGED <<image, encodings, webp>>

InitQuality == PipelineIdle /\ QualityInit /\ ZipIdle /\ SuffixIdle

NextQuality ==
    \/ EncodeNext /\ UNCHANGED <<pipeline_vars, zip_vars, suffix_vars>>
    \/ Fallback /\ UNCHANGED <<pipeline_vars, zip_vars, suffix_vars>>
    \/ WriteWebp /\ UNCHANGED <<pipeline_vars, zip_vars, suffix_vars>>

SpecQuality == InitQuality /\ [][NextQuality]_vars

\* The qualities C4 names, highest first.
ClaimedQualities == <<95, 85, 75, 65, 55, 45, 35, 25, 15>>

ClaimedUnder == {q \in Range(ClaimedQualities) : image[q] < 1048576}

Highest(S) == CHOOSE q \in S : \A r \in S : r <= q

\* C4: what is written is the encoding at the highest of 95, 85, ..., 15 that
\* comes out under 1 MiB, at quality 10 only when none does; so it is under the
\* budget or at the floor, and no more than 10 encodings are made.
C4_HighestQualityUnderBudget ==
    /\ Len(encodings) <= 10
    /\ qpc = "written" =>
         /\ ClaimedUnder # {} =>
              webp = [quality |-> Highest(ClaimedUnder), len |-> image[Highest(ClaimedUnder)]]
         /\ ClaimedUnder = {} => webp = [quality |-> 10, len |-> image[10]]
         /\ webp.len < 1048576 \/ webp.quality = 10
         /\ encodings[Len(encodings)] = webp

C4_Witness ==
    /\ qpc = "written"
    /\ image[95] = 1048576 /\ image[85] > 1048576 /\ image[65] < 1048576
    /\ webp.quality = 65
    /\ image[15] < 1048576


(***************************************************************************)
(* The packer on one working tree, and the extraction of what it packed.   *)
(***************************************************************************)
\* The levels of directories below the root of a tree.
MaxDepth == 2

TreeNames == {<<"a">>, <<"b", Dot, "png">>}

ExtractDir == <<"tmp", "out">>

Merge(t, u) == [q \in DOMAIN t \cup DOMAIN u |-> IF q \in DOMAIN t THEN t[q] ELSE u[q]]

\* The trees below dir, depth levels deep: each name is absent, a file, or a
\* directory with a tree of its own.
RECURSIVE TreesBelow(_, _, _)
TreesBelow(dir, names, depth) ==
    IF depth = 0 \/ names = {} THEN {EmptyTree}
    ELSE LET n    == CHOOSE x \in names : TRUE
             p    == Join(dir, n)
             here == {EmptyTree, Put(EmptyTree, p, Text)}
                     \cup {Put(t, p, DirNode) : t \in TreesBelow(p, TreeNames, depth - 1)}
         IN  {Merge(t, u) : t \in here, u \in TreesBelow(dir, names \ {n}, depth)}

ZipInit ==
    /\ zpc = "tree"
    /\ ztree \in TreesBelow(WorkDir, TreeNames, MaxDepth)
    /\ zcontainer = <<>>
    /\ zextracted = EmptyTree

\* zip_util::zip(work_dir)
ZipTree ==
    /\ zpc = "tree"
    /\ zcontainer' = Zip(ztree, WorkDir)
    /\ zpc' = "zipped"
    /\ UNCHANGED <<ztree, zextracted>>

\* zip_util::unzip of the container into another directory.
UnzipContainer ==
    /\ zpc = "zipped"
    /\ zextracted' = Unzip(zcontainer, ExtractDir)
    /\ zpc' = "extracted"
    /\ UNCHANGED <<ztree, zcontainer>>

InitZip == PipelineIdle /\ QualityIdle /\ ZipInit /\ SuffixIdle

NextZip ==
    \/ ZipTree /\ UNCHANGED <<pipeline_vars, quality_vars, suffix_vars>>
    \/ UnzipContainer /\ UNCHANGED <<pipeline_vars, quality_vars, suffix_vars>>

SpecZip == InitZip /\ [][NextZip]_vars

\* A path's components below a root.
Below(path, root) == SubSeq(path, Len(root) + 1, Len(path))

\* The relative paths of a tree, each with its type.
Shape(tree, root) == {<<Below(p, root), tree[p].type>> : p \in DOMAIN tree}

\* C8: the container has one entry for each file and for each directory of the
\* tree, empty ones too, named by its path below the root, and extracting it
\* gives the relative paths and the directories of the tree.
C8_PackerRoundTrip ==
    /\ zpc \in {"zipped", "extracted"} =>
         /\ Len(zcontainer) = Cardinality(DOMAIN ztree)
         /\ \A p \in DOMAIN ztree :
              \E i \in 1..Len(zcontainer) :
                 /\ SplitName(zcontainer[i].name) = Below(p, WorkDir)
                 /\ zcontainer[i].dir = (ztree[p].type = "dir")
    /\ zpc = "extracted" => Shape(zextracted, ExtractDir) = Shape(ztree, WorkDir)

C8_Witness ==
    /\ zpc = "extracted"
    /\ \E p \in DOMAIN ztree : ztree[p].type = "dir" /\ Children(ztree, p) = {}
    /\ \E p \in DOMAIN ztree : ztree[p].type = "file" /\ Len(Below(p, WorkDir)) = 2
    /\ \E p \in DOMAIN ztree : ztree[p].type = "file" /\ Len(Below(p, WorkDir)) = 1

(***************************************************************************)
(* append_suffix_to_filename on one path.                                  *)
(***************************************************************************)
\* The tokens of a file name.
MaxNameLen == 3

NameTokens == {"test", Dot, "txt"}

Suffixes == {<<"suffix">>, <<"_resized">>}

SuffixDir == <<"path1", "path2">>

\* The file names Path::file_stem answers for.
FileNames ==
    UNION {[1..n -> NameTokens] : n \in 1..MaxNameLen} \ {<<Dot>>, <<Dot, Dot>>}

SuffixInit ==
    /\ spc = "call"
    /\ spath \in {Join(SuffixDir, n) : n \in FileNames}
    /\ ssuffix \in Suffixes
    /\ sresult = <<>>

AppendSuffix ==
    /\ spc = "call"
    /\ sresult' = AppendSuffixToFilename(spath, ssuffix)
    /\ spc' = "done"
    /\ UNCHANGED <<spath, ssuffix>>

InitSuffix == PipelineIdle /\ QualityIdle /\ ZipIdle /\ SuffixInit

NextSuffix ==
    \/ AppendSuffix /\ UNCHANGED <<pipeline_vars, quality_vars, zip_vars>>

SpecSuffix == InitSuffix /\ [][NextSuffix]_vars

\* C9: the result is in the directory of the path and has its extension, and
\* its stem is the path's stem, an underscore and the suffix;
\* /path1/path2/test.txt with "suffix" gives /path1/path2/test_suffix.txt.
C9_SuffixAfterUnderscore ==
    spc = "done" =>
      /\ Parent(sresult) = Parent(spath)
      /\ Extension(FileName(sresult)) = Extension(FileName(spath))
      /\ FileStem(FileName(sresult)) = FileStem(FileName(spath)) \o <<"_">> \o ssuffix
      /\ (spath = Join(SuffixDir, <<"test", Dot, "txt">>) /\ ssuffix = <<"suffix">>)
         => sresult = Join(SuffixDir, <<"test", "_", "suffix", Dot, "txt">>)

=============================================================================
